---- MODULE Spec2Model ----
(***************************************************************************)
(* A model of macq's AMDN extraction technique (macq/extract/amdn.py), of  *)
(* the Extract dispatcher (macq/extract/extract.py) and of the Model value *)
(* object (macq/extract/model.py).                                         *)
(*                                                                         *)
(* The constraint builders of AMDN are static methods: each is an operator *)
(* of the observation collection, and each action of the specification is  *)
(* one call of one entry point on an input drawn from a bounded family.    *)
(* Weights are exact rationals [n / d]; probabilities are multiples of     *)
(* 1 / PScale.                                                             *)
(***************************************************************************)
EXTENDS Integers, Sequences, FiniteSets, TLC

VARIABLES
    op,         \* the entry point that was called ("idle" before any call)
    obs,        \* the observation collection passed to it
    thr,        \* the occ_threshold passed to it
    mode,       \* the extraction mode passed to Extract
    err,        \* the exception the call raised ("none": it returned)
    ran,        \* the constraint builders / encoder the call invoked
    out,        \* the constraint map the call returned (a set of entries)
    hard,       \* _solve_constraints: the hard_constraints list
    dispatched, \* Extract: the technique the call was dispatched to
    problem,    \* _solve_constraints: the weighted CNF and the decode table
    heap,       \* Model objects: a sequence, the index is the identity
    text,       \* the string the last serialize returned, and of which Model
    file,       \* the content of the file the last serialize wrote
    des,        \* the Model the last deserialize returned, and from which text
    lists,      \* list objects; lists[1] is the default of Trace.__init__'s steps
    traceobjs,  \* Trace objects: the list each holds as steps, and num_steps
    self        \* the Trace the last Trace method was called on (0: none)

vars == <<op, obs, thr, mode, err, ran, out, hard, dispatched, heap, text, file, des, lists, traceobjs, self, problem>>

-----------------------------------------------------------------------------
(* Bounds of the model.                                                    *)

MaxSets == 2        \* parallel action sets of one trace
MaxThr == 1         \* largest occurrence threshold tried
MaxModels == 2      \* Model objects alive at once
MaxSteps == 2       \* steps of a list held by a Trace
PScale == 10        \* probabilities are k / PScale

\* the toy domain: two actions, two propositions
Acts == {1, 2}
Props == {1, 2}
\* the action of the last token of a trace
None == 0

-----------------------------------------------------------------------------
(* Literals and weights.                                                   *)

WMAX == 1

PropSubject(r) == <<"prop", r, 0>>

\* str(ActionPair) of an unordered pair of actions
PairSubject(pair) ==
    LET x == CHOOSE a \in pair : \A b \in pair : a <= b
        y == CHOOSE a \in pair : \A b \in pair : b <= a
    IN  <<"pair", x, y>>

Lit(role, s, a, id, pos) ==
    [v |-> [role |-> role, s |-> s, a |-> a, id |-> id], pos |-> pos]

pre(s, a) == Lit("pre", s, a, <<>>, TRUE)
add(s, a) == Lit("add", s, a, <<>>, TRUE)
delete(s, a) == Lit("del", s, a, <<>>, TRUE)
AuxVar(id) == Lit("aux", <<"aux", 0, 0>>, 0, id, TRUE)

Neg(l) == [l EXCEPT !.pos = ~l.pos]

IsAux(l) == l.v.role = "aux"

\* nnf.operators.implies(a, b): Or({~a, b})
implies(a, b) == {Neg(a), b}

\* Or([maybe_lit]) for a Var
_or_refactor(l) == {l}

HARD == [tag |-> "HARD", n |-> 0, d |-> 1]
Num(n, d) == [tag |-> "num", n |-> n, d |-> d]

Entry(c, w) == [c |-> c, w |-> w]
Keys(m) == {e.c : e \in m}

\* {**a, **b}: the entries of b, and those of a whose key b does not hold
Merge(a, b) == b \cup {e \in a : e.c \notin Keys(b)}

-----------------------------------------------------------------------------
(* to_CNF of a disjunction of conjunctions of literals (a sequence of sets *)
(* of literals): one auxiliary variable per conjunct, the clause of the    *)
(* auxiliaries, and the clauses that define each auxiliary.                *)

AuxOf(ctx, k) == AuxVar(ctx \o <<k>>)

to_CNF(f, ctx) ==
    {{AuxOf(ctx, k) : k \in 1..Len(f)}}
    \cup UNION {
        {{Neg(c) : c \in f[k]} \cup {AuxOf(ctx, k)}}
        \cup {{Neg(AuxOf(ctx, k)), c} : c \in f[k]}
        : k \in 1..Len(f)}

_extract_aux_set_weights(cnf_formula, constraints, prob_disordered) ==
    LET aux_var == {l.v : l \in {l \in UNION cnf_formula : IsAux(l)}}
        hardened == Merge(constraints, {Entry(clause, HARD) : clause \in cnf_formula})
    IN  Merge(hardened,
              {Entry(_or_refactor([v |-> aux, pos |-> TRUE]),
                     Num(prob_disordered * WMAX, PScale)) : aux \in aux_var})

-----------------------------------------------------------------------------
(* The observation collection.  A trace is a sequence of parallel action   *)
(* sets, each given as the sequence of its actions in iteration order, and *)
(* one more state than sets.  Its tokens are one (state, action) per       *)
(* action of each set, then the last state with no action.                 *)

Range(s) == {s[k] : k \in DOMAIN s}

all_par_act_sets(o) ==
    [i \in DOMAIN o.traces |->
        [j \in DOMAIN o.traces[i].groups |-> Range(o.traces[i].groups[j])]]

states(o) == [i \in DOMAIN o.traces |-> o.traces[i].states]

RECURSIVE GroupTokens(_, _, _)
GroupTokens(t, j, k) ==
    IF j > Len(t.groups) THEN <<[state |-> t.states[j], action |-> None]>>
    ELSE IF k > Len(t.groups[j]) THEN GroupTokens(t, j + 1, 1)
    ELSE <<[state |-> t.states[j], action |-> t.groups[j][k]]>>
         \o GroupTokens(t, j, k + 1)

Tokens(o) == [i \in DOMAIN o.traces |-> GroupTokens(o.traces[i], 1, 1)]

\* positions (i, j) of the parallel action sets of the collection
SetIndex(o) ==
    UNION {{<<i, j>> : j \in DOMAIN o.traces[i].groups} : i \in DOMAIN o.traces}

TrueProps(state) == {r \in DOMAIN state : state[r]}

\* a call's result: the exception raised, or the value returned
Raise(e) == [err |-> e, val |-> "none", map |-> {}]
Return(m) == [err |-> "none", val |-> "map", map |-> m]
ReturnNone == [err |-> "none", val |-> "None", map |-> {}]

-----------------------------------------------------------------------------
(* 4.1 The disorder constraints.                                           *)

OrderedHypothesis(r, x, y) ==
    <<{pre(r, x), Neg(delete(r, x)), delete(r, y)},
      {add(r, x), pre(r, y)},
      {add(r, x), delete(r, y)},
      {delete(r, x), add(r, y)}>>

\* the (j, x, y) of the loops of lines 78-82 over one trace
AdjacentPairs(par_act_sets) ==
    {<<j, x, y>> \in (DOMAIN par_act_sets) \X Acts \X Acts :
        /\ j + 1 \in DOMAIN par_act_sets
        /\ x \in par_act_sets[j]
        /\ y \in par_act_sets[j + 1]
        /\ x # y}

\* the traces the loop of line 75 handles before the return of line 102
DisorderTraces(o) == {i \in DOMAIN o.traces : i = 1}

\* the two weights exchanged
DisorderEntries_exchanged(o, i, j, x, y, r) ==
    LET p == o.probabilities[{x, y}]
        s == PropSubject(r)
        ordered == _extract_aux_set_weights(
                      to_CNF(OrderedHypothesis(s, x, y), <<1, i, j, x, y, r, 1>>),
                      {}, p)
    IN  _extract_aux_set_weights(
            to_CNF(OrderedHypothesis(s, y, x), <<1, i, j, x, y, r, 2>>),
            ordered, PScale - p)

DisorderEntries(o, i, j, x, y, r) ==
    LET p == o.probabilities[{x, y}]
        s == PropSubject(r)
        ordered == _extract_aux_set_weights(
                      to_CNF(OrderedHypothesis(s, x, y), <<1, i, j, x, y, r, 1>>),
                      {}, PScale - p)
    IN  _extract_aux_set_weights(
            to_CNF(OrderedHypothesis(s, y, x), <<1, i, j, x, y, r, 2>>),
            ordered, p)

\* the (i, j, x, y) for which line 84 looks the probability up
DisorderLookups(o) ==
    UNION {{<<i, t[1], t[2], t[3]>> : t \in AdjacentPairs(all_par_act_sets(o)[i])}
           : i \in DisorderTraces(o)}

\* a lookup that falls back on probability 0: probabilities.get(pair, 0)
_build_disorder_constraints_default(o) ==
    LET filled == [o EXCEPT !.probabilities =
                      [pair \in (DOMAIN o.probabilities)
                                \cup {{q[3], q[4]} : q \in DisorderLookups(o)} |->
                          IF pair \in DOMAIN o.probabilities
                          THEN o.probabilities[pair] ELSE 0]]
    IN  IF Len(o.traces) = 0 THEN ReturnNone
        ELSE Return(UNION {DisorderEntries(filled, q[1], q[2], q[3], q[4], r) :
                            q \in DisorderLookups(o), r \in o.propositions})

_build_disorder_constraints(o) ==
    IF Len(o.traces) = 0 THEN ReturnNone
    ELSE IF \E q \in DisorderLookups(o) : {q[3], q[4]} \notin DOMAIN o.probabilities
    THEN Raise("KeyError")
    ELSE Return(UNION {DisorderEntries(o, q[1], q[2], q[3], q[4], r) :
                        q \in DisorderLookups(o), r \in o.propositions})

-----------------------------------------------------------------------------
(* 4.2 The parallel constraints.                                           *)

_build_hard_parallel_constraints(o) ==
    Return(UNION {
        {Entry(implies(add(PairSubject(r), act), Neg(pre(PairSubject(r), act))), Num(WMAX, 1)),
         Entry(implies(delete(PairSubject(r), act), pre(PairSubject(r), act)), Num(WMAX, 1))}
        : act \in o.actions, r \in DOMAIN o.probabilities})

\* Or([And([~add(r, a), ~delete(r, a)]), And([~add(r, b), ~delete(r, b)])])
Untouched(r, a, b) ==
    <<{Neg(add(r, a)), Neg(delete(r, a))}, {Neg(add(r, b)), Neg(delete(r, b))}>>

\* the (i, j, act_x, act_x_prime) of the loops of lines 119-127
SameSetLookups(o) ==
    LET sets == all_par_act_sets(o)
    IN  {<<q[1][1], q[1][2], q[2], q[3]>> :
            q \in {q \in SetIndex(o) \X Acts \X Acts :
                      /\ q[2] \in sets[q[1][1]][q[1][2]]
                      /\ q[3] \in sets[q[1][1]][q[1][2]]
                      /\ q[2] # q[3]}}

\* the (i, j, act_x_prime, act_y) of the loops of lines 136-143
NextSetLookups(o) ==
    UNION {{<<i, t[1], t[2], t[3]>> : t \in AdjacentPairs(all_par_act_sets(o)[i])}
           : i \in DOMAIN o.traces}

_build_soft_parallel_constraints(o) ==
    IF \E q \in SameSetLookups(o) \cup NextSetLookups(o) :
            {q[3], q[4]} \notin DOMAIN o.probabilities
    THEN Raise("KeyError")
    ELSE Return(
        UNION {_extract_aux_set_weights(
                   to_CNF(Untouched(PropSubject(r), q[4], q[3]), <<2, q[1], q[2], q[3], q[4], r, 1>>),
                   {}, PScale - o.probabilities[{q[3], q[4]}])
               : q \in SameSetLookups(o), r \in o.propositions}
        \cup
        UNION {_extract_aux_set_weights(
                   to_CNF(Untouched(PropSubject(r), q[3], q[4]), <<3, q[1], q[2], q[3], q[4], r, 1>>),
                   {}, o.probabilities[{q[3], q[4]}])
               : q \in NextSetLookups(o), r \in o.propositions})

\* line 152: {**hard, **soft} of the two maps the builders returned
MergeParallel(h, s) ==
    IF s.err # "none" THEN s ELSE Return(Merge(h.map, s.map))

_build_parallel_constraints(o) ==
    MergeParallel(_build_hard_parallel_constraints(o),
                  _build_soft_parallel_constraints(o))

-----------------------------------------------------------------------------
(* 4.3 The noise constraints.                                              *)

\* positions (i, j) of the tokens of the collection
TokenIndex(tok) ==
    UNION {{<<i, j>> : j \in DOMAIN tok[i]} : i \in DOMAIN tok}

Sum2(f, S) == LET RECURSIVE Acc(_)
                  Acc(T) == IF T = {} THEN 0
                            ELSE LET t == CHOOSE t \in T : TRUE
                                 IN  f[t] + Acc(T \ {t})
              IN  Acc(S)

_calculate_all_r_occ(o) ==
    LET tok == Tokens(o)
        n == [q \in TokenIndex(tok) |-> Cardinality(TrueProps(tok[q[1]][q[2]].state))]
    IN  Sum2(n, TokenIndex(tok))

\* how often r holds in the token after a token of action a (lines 179-185)
OccurrencesAfter(tok, a, r) ==
    Cardinality({q \in TokenIndex(tok) :
        /\ q[2] + 1 \in DOMAIN tok[q[1]]
        /\ tok[q[1]][q[2]].action = a
        /\ tok[q[1]][q[2] + 1].state[r]})

\* how often r holds in a token of action a (lines 233-239)
OccurrencesAt(tok, a, r) ==
    Cardinality({q \in TokenIndex(tok) :
        /\ tok[q[1]][q[2]].action = a
        /\ tok[q[1]][q[2]].state[r]})

\* occurrences has no key for the action of a token that is not in actions
UncountedAfter(o, tok) ==
    \E q \in TokenIndex(tok) :
        /\ q[2] + 1 \in DOMAIN tok[q[1]]
        /\ tok[q[1]][q[2]].action \notin o.actions
        /\ TrueProps(tok[q[1]][q[2] + 1].state) # {}

UncountedToken(o, tok) ==
    \E q \in TokenIndex(tok) :
        /\ tok[q[1]][q[2]].action \notin o.actions
        /\ TrueProps(tok[q[1]][q[2]].state) # {}

\* the comparison of line 193 turned round
_noise_constraints_6_below(o, all_occ, occ_threshold) ==
    LET tok == Tokens(o)
        occurrences == [t \in o.actions \X o.propositions |->
                           OccurrencesAfter(tok, t[1], t[2])]
        exceeds == {t \in o.actions \X o.propositions : occurrences[t] < occ_threshold}
    IN  IF UncountedAfter(o, tok) THEN Raise("KeyError")
        ELSE IF exceeds # {} /\ all_occ = 0 THEN Raise("ZeroDivisionError")
        ELSE Return({Entry(_or_refactor(Neg(delete(PropSubject(t[2]), t[1]))),
                           Num(occurrences[t], all_occ))
                     : t \in exceeds})

_noise_constraints_6(o, all_occ, occ_threshold) ==
    LET tok == Tokens(o)
        occurrences == [t \in o.actions \X o.propositions |->
                           OccurrencesAfter(tok, t[1], t[2])]
        exceeds == {t \in o.actions \X o.propositions : occurrences[t] > occ_threshold}
    IN  IF UncountedAfter(o, tok) THEN Raise("KeyError")
        ELSE IF exceeds # {} /\ all_occ = 0 THEN Raise("ZeroDivisionError")
        ELSE Return({Entry(_or_refactor(Neg(delete(PropSubject(t[2]), t[1]))),
                           Num(occurrences[t], all_occ))
                     : t \in exceeds})

\* how often r holds in a state of obs_lists.states (lines 206-210)
StateOccurrences(o, r) ==
    Cardinality({q \in UNION {{<<i, j>> : j \in DOMAIN states(o)[i]} : i \in DOMAIN o.traces} :
                    states(o)[q[1]][q[2]][r]})

\* the (i, j, r) with r false before and true after the set j (lines 213-222)
Transitions(o) ==
    {<<q[1][1], q[1][2], q[2]>> :
        q \in {q \in SetIndex(o) \X o.propositions :
                  /\ states(o)[q[1][1]][q[1][2] + 1][q[2]]
                  /\ ~states(o)[q[1][1]][q[1][2]][q[2]]}}

\* a weight that differs from trace to trace
_noise_constraints_7_per_trace(o, all_occ) ==
    IF Transitions(o) # {} /\ all_occ = 0 THEN Raise("ZeroDivisionError")
    ELSE Return({Entry({add(PropSubject(t[3]), act) : act \in all_par_act_sets(o)[t[1]][t[2]]},
                       Num(t[1], all_occ))
                 : t \in Transitions(o)})

_noise_constraints_7(o, all_occ) ==
    IF Transitions(o) # {} /\ all_occ = 0 THEN Raise("ZeroDivisionError")
    ELSE Return({Entry({add(PropSubject(t[3]), act) : act \in all_par_act_sets(o)[t[1]][t[2]]},
                       Num(StateOccurrences(o, t[3]), all_occ))
                 : t \in Transitions(o)})

_noise_constraints_8(o, all_occ, occ_threshold) ==
    LET tok == Tokens(o)
        occurrences == [t \in o.actions \X o.propositions |->
                           OccurrencesAt(tok, t[1], t[2])]
        exceeds == {t \in o.actions \X o.propositions : occurrences[t] > occ_threshold}
    IN  IF UncountedToken(o, tok) THEN Raise("KeyError")
        ELSE IF exceeds # {} /\ all_occ = 0 THEN Raise("ZeroDivisionError")
        ELSE Return({Entry(_or_refactor(pre(PropSubject(t[2]), t[1])),
                           Num(occurrences[t], all_occ))
                     : t \in exceeds})

\* line 256: {**noise_6, **noise_7, **noise_8} of the three maps
MergeNoise(n6, n7, n8) ==
    IF n6.err # "none" THEN n6
    ELSE IF n7.err # "none" THEN n7
    ELSE IF n8.err # "none" THEN n8
    ELSE Return(Merge(Merge(n6.map, n7.map), n8.map))

\* line 256, with the all_occ of line 255
NoiseWith(o, all_occ, occ_threshold) ==
    MergeNoise(_noise_constraints_6(o, all_occ, occ_threshold),
               _noise_constraints_7(o, all_occ),
               _noise_constraints_8(o, all_occ, occ_threshold))

_build_noise_constraints(o, occ_threshold) ==
    NoiseWith(o, _calculate_all_r_occ(o), occ_threshold)

-----------------------------------------------------------------------------
(* 4.4 The aggregator and the encoder.  A call's record also names, in     *)
(* order, the builders it invoked.                                         *)

\* line 260: {**disorder, **parallel, **noise}; the arguments are evaluated
\* left to right, and unpacking a None raises TypeError
MergeAll(d, p, n) ==
    IF d.err # "none" THEN [res |-> d, ran |-> <<"disorder">>]
    ELSE IF d.val = "None"
    THEN [res |-> Raise("TypeError"), ran |-> <<"disorder">>]
    ELSE IF p.err # "none" THEN [res |-> p, ran |-> <<"disorder", "parallel">>]
    ELSE IF n.err # "none"
    THEN [res |-> n, ran |-> <<"disorder", "parallel", "noise">>]
    ELSE [res |-> Return(Merge(Merge(d.map, p.map), n.map)),
          ran |-> <<"disorder", "parallel", "noise">>]

_set_all_constraints(o, occ_threshold) ==
    MergeAll(_build_disorder_constraints(o),
             _build_parallel_constraints(o),
             _build_noise_constraints(o, occ_threshold))

\* lines 264-272: the HARD entries leave the map for the hard_constraints list
SplitHard(all) ==
    LET constraints == all.res.map
        hard_constraints == {e.c : e \in {e \in constraints : e.w = HARD}}
    IN  IF all.res.err # "none"
        THEN [err |-> all.res.err, ran |-> <<"solve">> \o all.ran,
              constraints |-> {}, hard_constraints |-> {}]
        ELSE [err |-> "none", ran |-> <<"solve">> \o all.ran,
              constraints |-> {e \in constraints : e.c \notin hard_constraints},
              hard_constraints |-> hard_constraints]

_solve_constraints(o, occ_threshold) ==
    SplitHard(_set_all_constraints(o, occ_threshold))

\* the variables of a set of clauses, and dict(enumerate(vars, start=1)):
\* the decode table, in some order of the variables
VarsOf(clauses) == {l.v : l \in UNION clauses}

RECURSIVE Enumerate(_)
Enumerate(V) ==
    IF V = {} THEN <<>>
    ELSE LET v == CHOOSE v \in V : TRUE
         IN  <<v>> \o Enumerate(V \ {v})

\* a clause as signed variable numbers, by the table it was encoded with
EncodeClause(cl, decode) ==
    {[n |-> CHOOSE n \in DOMAIN decode : decode[n] = l.v, pos |-> l.pos] : l \in cl}

\* to_wcnf(clauses, weights): the clauses are numbered by a table of their
\* own variables; with weights they are the soft clauses of the result.
\* With weights None they are its hard clauses (none_weights = "hard": a
\* WCNF takes a clause without weight as hard) or are kept in its soft list
\* (none_weights = "soft")
to_wcnf(entries, weighted, none_weights) ==
    LET decode == Enumerate(VarsOf(Keys(entries)))
        encoded == {[cl |-> EncodeClause(e.c, decode), w |-> e.w] : e \in entries}
    IN  IF weighted \/ none_weights = "soft"
        THEN [soft |-> encoded, hard |-> {}, decode |-> decode]
        ELSE [soft |-> {}, hard |-> {e.cl : e \in encoded}, decode |-> decode]

\* lines 274-278: two encodings, the second table replacing the first, and
\* wcnf.extend(hard_wcnf.soft), which adds clauses without weight
Emit(constraints, hard_constraints, none_weights) ==
    LET wcnf == to_wcnf(constraints, TRUE, none_weights)
        hard_wcnf == to_wcnf({Entry(c, HARD) : c \in hard_constraints}, FALSE, none_weights)
    IN  [soft |-> wcnf.soft,
         hard |-> wcnf.hard \cup {e.cl : e \in hard_wcnf.soft},
         decode |-> hard_wcnf.decode]

NoProblem == [soft |-> {}, hard |-> {}, decode |-> <<>>]

-----------------------------------------------------------------------------
(* The entry points.                                                       *)

Modes == {"OBSERVER", "SLAF", "AMDN", "ARMS", "LOCM"}

\* the call techniques[mode](obs_tracelist, debug=debug, **kwargs) of line 78:
\* AMDN.__new__(cls, obs_lists, occ_threshold) takes no debug argument
Dispatch(m) ==
    [err |-> IF m = "AMDN" THEN "TypeError" ELSE "none", dispatched |-> m]

\* a dispatcher without the check of line 68
Extract_new_unchecked(o, m) == Dispatch(m)

Extract_new(o, m) ==
    IF Len(o.traces) = 0
    THEN [err |-> "ValueError", dispatched |-> "none"]
    ELSE Dispatch(m)

\* a constructor that looks at the type after it has solved
AMDN_new_late_check(o, occ_threshold) ==
    IF o.type # "NoisyPartialDisorderedParallelObservation"
    THEN [_solve_constraints(o, occ_threshold) EXCEPT !.err = "IncompatibleObservationToken"]
    ELSE _solve_constraints(o, occ_threshold)

AMDN_new(o, occ_threshold) ==
    IF o.type # "NoisyPartialDisorderedParallelObservation"
    THEN [err |-> "IncompatibleObservationToken", ran |-> <<>>,
          constraints |-> {}, hard_constraints |-> {}]
    ELSE _solve_constraints(o, occ_threshold)

-----------------------------------------------------------------------------
(* The inputs.                                                             *)

States == [Props -> BOOLEAN]
AllFalse == [r \in Props |-> FALSE]

\* a parallel action set in each order its actions can be iterated in
Orders == {<<1>>, <<2>>, <<1, 2>>, <<2, 1>>}
SortedOrders == {<<1>>, <<2>>, <<1, 2>>}

\* the traces of 1..n sets with the given orders and states
TracesOf(n, orders, sts) ==
    UNION {{[groups |-> g, states |-> st] :
               g \in [1..k -> orders], st \in [1..(k + 1) -> sts]}
           : k \in 1..n}

ActionsOf(tr) ==
    UNION {Range(tr[q[1]].groups[q[2]]) :
             q \in UNION {{<<i, j>> : j \in DOMAIN tr[i].groups} : i \in DOMAIN tr}}

ProbValues == {0, 3, PScale}
Pairs == {{1, 2}}
ProbTables == UNION {[D -> ProbValues] : D \in SUBSET Pairs}
FullTable == [pair \in Pairs |-> 3]

Obs(ty, tr, pt) ==
    [type |-> ty, traces |-> tr, probabilities |-> pt,
     propositions |-> Props, actions |-> ActionsOf(tr)]

\* one trace of up to MaxSets sets, or two traces of up to two sets each,
\* whose states are all false: inputs of the builders that read the parallel
\* action sets and the probabilities only
ParTraceLists ==
    {<<>>} \cup {<<t>> : t \in TracesOf(MaxSets, SortedOrders, {AllFalse})}
    \cup {<<t[1], t[2]>> :
            t \in TracesOf(2, SortedOrders, {AllFalse}) \X TracesOf(2, SortedOrders, {AllFalse})}

ParInputs ==
    {Obs("NoisyPartialDisorderedParallelObservation", tr, pt) :
        tr \in ParTraceLists, pt \in ProbTables}

\* one trace of up to MaxSets sets in which the first proposition alone is
\* observed true, or two traces of one set each: inputs of the noise builders
OnlyFirst == [r \in Props |-> r = 1]
AllTrue == [r \in Props |-> TRUE]

NoiseTraceLists ==
    {<<>>} \cup {<<t>> : t \in TracesOf(MaxSets, Orders, {AllFalse, OnlyFirst})}
    \cup {<<t[1], t[2]>> :
            t \in TracesOf(1, SortedOrders, {AllFalse, AllTrue})
                  \X TracesOf(1, SortedOrders, {AllFalse, AllTrue})}

NoiseInputs ==
    {Obs("NoisyPartialDisorderedParallelObservation", tr, FullTable) :
        tr \in NoiseTraceLists}

\* one trace of up to MaxSets sets whose states are all false, or in which
\* the first proposition becomes true after the first set; of the wrong
\* type, one trace of one set
Becomes(k) == [j \in 1..(k + 1) |-> IF j = 1 THEN AllFalse ELSE OnlyFirst]
Never(k) == [j \in 1..(k + 1) |-> AllFalse]

SolveTraceLists ==
    {<<>>}
    \cup UNION {{<<[groups |-> g, states |-> st]>> :
                    g \in [1..k -> SortedOrders], st \in {Never(k), Becomes(k)}}
                : k \in 1..MaxSets}

SolveInputs ==
    {Obs("NoisyPartialDisorderedParallelObservation", tr, pt) :
        tr \in SolveTraceLists, pt \in ProbTables}
    \cup {Obs("PartialObservabilityToken", tr, pt) :
            tr \in {tr \in SolveTraceLists : \A i \in DOMAIN tr : Len(tr[i].groups) = 1},
            pt \in ProbTables}

Thresholds == (-1)..MaxThr

-----------------------------------------------------------------------------
(* The calls.                                                              *)

NoObs == Obs("none", <<>>, <<>>)

(***************************************************************************)
(* Model (model.py).  A Model object holds two containers, fluents and     *)
(* actions.  A container is a Python set or a Python list; a set is kept   *)
(* as the increasing sequence of its members.  Fluent and Action are       *)
(* identified by small integers, and the JSON of one is that integer.      *)
(***************************************************************************)
PySet(items) == [kind |-> "set", items |-> items]
PyList(items) == [kind |-> "list", items |-> items]

\* set(xs): the members of xs, once each
set(xs) ==
    LET S == Range(xs)
        RECURSIVE Sorted(_)
        Sorted(T) == IF T = {} THEN <<>>
                     ELSE LET m == CHOOSE m \in T : \A n \in T : m <= n
                          IN  <<m>> \o Sorted(T \ {m})
    IN  PySet(Sorted(S))

Model_init(fluents, actions) == [fluents |-> fluents, actions |-> actions]

\* a == b for two Model objects, given as their places in the heap: the class
\* defines no __eq__, so the comparison is object's, by identity
ModelEq(a, b) == a = b

\* the text of a JSON document; complete is FALSE for a text cut short
Document(fluents, actions) == [fluents |-> fluents, actions |-> actions, complete |-> TRUE]
Partial == [fluents |-> <<>>, actions |-> <<>>, complete |-> FALSE]

\* dumps(self, indent=2, default=lambda o: o.__dict__): a Model goes to its
\* __dict__, a list to a JSON array, and a set, which has no __dict__,
\* raises AttributeError
dumps(m) ==
    IF m.fluents.kind = "set" \/ m.actions.kind = "set"
    THEN [err |-> "AttributeError", doc |-> Partial]
    ELSE [err |-> "none", doc |-> Document(m.fluents.items, m.actions.items)]

\* serialize(self, filepath): the file is opened for writing, hence cut,
\* before dump runs; old is what the file held
serialize(m, filepath, old) ==
    LET r == dumps(m)
    IN  [err |-> r.err,
         doc |-> r.doc,
         file |-> IF filepath THEN r.doc ELSE old]

\* deserialize(string): inside class Model the name Fluent.__from_json is
\* Fluent._Model__from_json; Fluent and Action are not part of the sources
\* at hand, so whether they have that attribute is open (resolves)
deserialize(string, resolves) ==
    IF ~resolves THEN [err |-> "AttributeError", model |-> Model_init(PySet(<<>>), PySet(<<>>))]
    ELSE [err |-> "none", model |-> Model_init(set(string.fluents), set(string.actions))]

ModelInputs ==
    {Model_init(PySet(<<>>), PySet(<<>>)),
     Model_init(PySet(<<1, 2>>), PySet(<<1>>)),
     Model_init(PyList(<<>>), PyList(<<>>)),
     Model_init(PyList(<<1>>), PyList(<<1>>)),
     Model_init(PyList(<<2, 1>>), PyList(<<1>>))}

ModelOps == {"idle", "Model", "serialize", "deserialize"}

(***************************************************************************)
(* Trace (trace.py).  A Trace holds a reference to a list object as steps  *)
(* and the number num_steps.  The default value of the steps parameter of  *)
(* __init__ is one list object, made when the function is defined.  A Step *)
(* is identified by a small integer, which is also the cost of its action. *)
(***************************************************************************)
Steps == {1, 2}
TraceIds == {1, 2}
DefaultSteps == 1

\* __init__(self, steps=[]): given is the list object passed, DefaultSteps
\* when none is
Trace_init(ls, given) == [steps |-> given, num_steps |-> Len(ls[given])]

\* the methods of list that Trace hands its steps to
Done(l) == [err |-> "none", steps |-> l]
Fail(e, l) == [err |-> e, steps |-> l]

append(l, item) == Done(Append(l, item))

clear(l) == Done(<<>>)

extend(l, iterable) == Done(l \o iterable)

\* list.insert takes any index, and one beyond the end appends
insert(l, index, item) ==
    LET k == IF index > Len(l) THEN Len(l) ELSE index
    IN  Done(SubSeq(l, 1, k) \o <<item>> \o SubSeq(l, k + 1, Len(l)))

pop(l) == IF l = <<>> THEN Fail("IndexError", l) ELSE Done(SubSeq(l, 1, Len(l) - 1))

remove(l, value) ==
    IF value \notin Range(l) THEN Fail("ValueError", l)
    ELSE LET k == CHOOSE k \in DOMAIN l : l[k] = value /\ \A j \in 1..(k - 1) : l[j] # value
         IN  Done(SubSeq(l, 1, k - 1) \o SubSeq(l, k + 1, Len(l)))

\* del self.steps[key], key counted from 0
__delitem__(l, key) ==
    IF key >= Len(l) THEN Fail("IndexError", l)
    ELSE Done(SubSeq(l, 1, key) \o SubSeq(l, key + 2, Len(l)))

add_steps(l, steps) == Done(l \o steps)

\* get_cost_range(self, start, end) of a Trace t whose list is l
get_cost_range(t, l, start, end) ==
    IF start < 1 \/ end < 1 \/ start > t.num_steps \/ end > t.num_steps
    THEN [err |-> "InvalidCostRange", val |-> 0]
    ELSE IF start > end THEN [err |-> "InvalidCostRange", val |-> 0]
    ELSE IF end > Len(l) THEN [err |-> "IndexError", val |-> 0]
    ELSE [err |-> "none",
          val |-> Sum2([i \in start..end |-> l[i]], start..end)]

\* get_usage(self, action): sum / self.num_steps, as the pair of the two
get_usage(t, l, action) ==
    IF t.num_steps = 0 THEN [err |-> "ZeroDivisionError", n |-> 0, d |-> 0]
    ELSE [err |-> "none",
          n |-> Cardinality({i \in DOMAIN l : l[i] = action}),
          d |-> t.num_steps]

StepLists == {<<>>, <<1>>, <<2, 1>>}
TraceOps == {"idle", "Trace", "append", "clear", "extend", "insert", "pop", "remove",
             "__delitem__", "add_steps"}

Init ==
    /\ op = "idle"
    /\ obs = NoObs
    /\ thr = 0
    /\ mode = "none"
    /\ err = "none"
    /\ ran = <<>>
    /\ out = {}
    /\ hard = {}
    /\ dispatched = "none"
    /\ heap = <<>>
    /\ text = [of |-> 0, doc |-> Partial, path |-> FALSE]
    /\ file = Partial
    /\ des = [obj |-> 0, of |-> 0]
    /\ lists = <<<<>>>>
    /\ traceobjs = <<>>
    /\ self = 0
    /\ problem = NoProblem

TraceUnchanged == UNCHANGED <<lists, traceobjs, self>>

ModelUnchanged == UNCHANGED <<heap, text, file, des>> /\ TraceUnchanged

CallExtract ==
    /\ op = "idle"
    /\ \E o \in ParInputs, m \in Modes :
        LET r == Extract_new(o, m)
        IN  /\ op' = "Extract"
            /\ obs' = o
            /\ mode' = m
            /\ err' = r.err
            /\ dispatched' = r.dispatched
    /\ UNCHANGED <<thr, ran, out, hard, problem>>
    /\ ModelUnchanged

\* AMDN(obs_lists, occ_threshold) with the outcome r of the constructor
Construct(o, t, r, none_weights) ==
    /\ op' = "AMDN"
    /\ problem' = IF r.err = "none"
                  THEN Emit(r.constraints, r.hard_constraints, none_weights)
                  ELSE NoProblem
    /\ obs' = o
    /\ thr' = t
    /\ err' = r.err
    /\ ran' = r.ran
    /\ out' = r.constraints
    /\ hard' = r.hard_constraints
    /\ UNCHANGED <<mode, dispatched>>
    /\ ModelUnchanged

CallAMDN ==
    /\ op = "idle"
    /\ \E o \in SolveInputs, t \in Thresholds, none_weights \in {"hard", "soft"} :
        Construct(o, t, AMDN_new(o, t), none_weights)

\* a direct call of a static method that returns a constraint map
CallBuilder(name, o, t, r) ==
    /\ op' = name
    /\ obs' = o
    /\ thr' = t
    /\ err' = r.err
    /\ ran' = <<r.val>>
    /\ out' = r.map
    /\ UNCHANGED <<mode, hard, dispatched, problem>>
    /\ ModelUnchanged

CallDisorder ==
    /\ op = "idle"
    /\ \E o \in ParInputs :
        CallBuilder("_build_disorder_constraints", o, 0, _build_disorder_constraints(o))

CallSoftParallel ==
    /\ op = "idle"
    /\ \E o \in ParInputs :
        CallBuilder("_build_soft_parallel_constraints", o, 0,
                    _build_soft_parallel_constraints(o))

CallParallel ==
    /\ op = "idle"
    /\ \E o \in ParInputs :
        CallBuilder("_build_parallel_constraints", o, 0, _build_parallel_constraints(o))

CallNoise6 ==
    /\ op = "idle"
    /\ \E o \in NoiseInputs, t \in Thresholds :
        CallBuilder("_noise_constraints_6", o, t,
                    _noise_constraints_6(o, _calculate_all_r_occ(o), t))

CallNoise8 ==
    /\ op = "idle"
    /\ \E o \in NoiseInputs, t \in Thresholds :
        CallBuilder("_noise_constraints_8", o, t,
                    _noise_constraints_8(o, _calculate_all_r_occ(o), t))

CallNoise7 ==
    /\ op = "idle"
    /\ \E o \in NoiseInputs :
        CallBuilder("_noise_constraints_7", o, 0,
                    _noise_constraints_7(o, _calculate_all_r_occ(o)))

CallNoise ==
    /\ op = "idle"
    /\ \E o \in NoiseInputs, t \in Thresholds :
        CallBuilder("_build_noise_constraints", o, t, _build_noise_constraints(o, t))

CallSetAll ==
    /\ op = "idle"
    /\ \E o \in SolveInputs, t \in Thresholds :
        CallBuilder("_set_all_constraints", o, t, _set_all_constraints(o, t).res)

AMDNUnchanged == UNCHANGED <<obs, thr, mode, ran, out, hard, dispatched, problem>>

NewModel ==
    /\ op \in ModelOps
    /\ Len(heap) < MaxModels
    /\ \E m \in ModelInputs : heap' = Append(heap, m)
    /\ op' = "Model"
    /\ err' = "none"
    /\ UNCHANGED <<text, file, des>>
    /\ AMDNUnchanged
    /\ TraceUnchanged

CallSerialize ==
    /\ op \in ModelOps
    /\ \E i \in DOMAIN heap, filepath \in BOOLEAN :
        LET r == serialize(heap[i], filepath, file)
        IN  /\ op' = "serialize"
            /\ err' = r.err
            /\ text' = IF r.err = "none"
                       THEN [of |-> i, doc |-> r.doc, path |-> filepath]
                       ELSE [of |-> 0, doc |-> Partial, path |-> filepath]
            /\ file' = r.file
    /\ UNCHANGED <<heap, des>>
    /\ AMDNUnchanged
    /\ TraceUnchanged

CallDeserialize ==
    /\ op \in ModelOps
    /\ text.of # 0
    /\ Len(heap) < MaxModels
    /\ \E resolves \in BOOLEAN :
        LET r == deserialize(text.doc, resolves)
        IN  /\ op' = "deserialize"
            /\ err' = r.err
            /\ heap' = IF r.err = "none" THEN Append(heap, r.model) ELSE heap
            /\ des' = [obj |-> IF r.err = "none" THEN Len(heap) + 1 ELSE 0, of |-> text.of]
    /\ UNCHANGED <<text, file>>
    /\ AMDNUnchanged
    /\ TraceUnchanged

\* Trace() or Trace(steps), steps a list made for the call
NewTrace ==
    /\ op \in TraceOps
    /\ Len(traceobjs) < Cardinality(TraceIds)
    /\ \/ /\ traceobjs' = Append(traceobjs, Trace_init(lists, DefaultSteps))
          /\ lists' = lists
       \/ \E steps \in StepLists :
            /\ lists' = Append(lists, steps)
            /\ traceobjs' = Append(traceobjs, Trace_init(lists', Len(lists')))
    /\ self' = Len(traceobjs')
    /\ op' = "Trace"
    /\ err' = "none"
    /\ AMDNUnchanged
    /\ UNCHANGED <<heap, text, file, des>>

\* a method of Trace t that hands self.steps to the list method of result r
CallTrace(name, t, r) ==
    /\ op \in TraceOps
    /\ Len(r.steps) <= MaxSteps
    /\ lists' = [lists EXCEPT ![traceobjs[t].steps] = r.steps]
    /\ self' = t
    /\ op' = name
    /\ err' = r.err
    /\ UNCHANGED traceobjs
    /\ AMDNUnchanged
    /\ UNCHANGED <<heap, text, file, des>>

StepsOf(t) == lists[traceobjs[t].steps]

TraceAppend ==
    \E t \in DOMAIN traceobjs, item \in Steps :
        CallTrace("append", t, append(StepsOf(t), item))

TraceClear ==
    \E t \in DOMAIN traceobjs : CallTrace("clear", t, clear(StepsOf(t)))

TraceExtend ==
    \E t \in DOMAIN traceobjs, iterable \in StepLists :
        CallTrace("extend", t, extend(StepsOf(t), iterable))

TraceInsert ==
    \E t \in DOMAIN traceobjs, index \in 0..MaxSteps, item \in Steps :
        CallTrace("insert", t, insert(StepsOf(t), index, item))

TracePop ==
    \E t \in DOMAIN traceobjs : CallTrace("pop", t, pop(StepsOf(t)))

TraceRemove ==
    \E t \in DOMAIN traceobjs, value \in Steps :
        CallTrace("remove", t, remove(StepsOf(t), value))

TraceDelitem ==
    \E t \in DOMAIN traceobjs, key \in 0..MaxSteps :
        CallTrace("__delitem__", t, __delitem__(StepsOf(t), key))

TraceAddSteps ==
    \E t \in DOMAIN traceobjs, steps \in StepLists :
        CallTrace("add_steps", t, add_steps(StepsOf(t), steps))

Next ==
    \/ CallExtract
    \/ CallAMDN
    \/ CallDisorder
    \/ CallSoftParallel
    \/ CallParallel
    \/ CallNoise6
    \/ CallNoise8
    \/ CallNoise7
    \/ CallNoise
    \/ CallSetAll
    \/ NewModel
    \/ CallSerialize
    \/ CallDeserialize
    \/ NewTrace
    \/ TraceAppend
    \/ TraceClear
    \/ TraceExtend
    \/ TraceInsert
    \/ TracePop
    \/ TraceRemove
    \/ TraceDelitem
    \/ TraceAddSteps

Spec == Init /\ [][Next]_vars

-----------------------------------------------------------------------------
(* Satisfaction of clauses.  An assignment gives a truth value to the      *)
(* decision literals of the grid propositions x actions x roles; the value *)
(* of an auxiliary variable is the value of the conjunct that the clauses  *)
(* of H define it as, which every assignment that satisfies H agrees with. *)

DecisionVars(o) ==
    {l.v : l \in UNION {{pre(PropSubject(r), a), add(PropSubject(r), a),
                          delete(PropSubject(r), a)}
                         : r \in o.propositions, a \in o.actions}}

Assignments(o) == [DecisionVars(o) -> BOOLEAN]

DecisionTrue(l, A) == (l.v \in DOMAIN A /\ A[l.v]) = l.pos

AuxTrue(v, A, H) ==
    \E cl \in H :
        /\ [v |-> v, pos |-> TRUE] \in cl
        /\ \A l \in cl \ {[v |-> v, pos |-> TRUE]} : ~IsAux(l) /\ ~DecisionTrue(l, A)

LitTrue(l, A, H) ==
    IF IsAux(l) THEN AuxTrue(l.v, A, H) = l.pos ELSE DecisionTrue(l, A)

Satisfies(A, H) == \A cl \in H : \E l \in cl : LitTrue(l, A, H)

WellFormed(A, r, a) ==
    /\ A[add(PropSubject(r), a).v] => ~A[pre(PropSubject(r), a).v]
    /\ A[delete(PropSubject(r), a).v] => A[pre(PropSubject(r), a).v]

-----------------------------------------------------------------------------
(* The claims.                                                             *)

Returned == err = "none"
WrongType == obs.type # "NoisyPartialDisorderedParallelObservation"

\* C1: every assignment that satisfies all the hard clauses of the problem
\* AMDN solves makes, for every action a and proposition r of the input,
\* (r added by a => r not a precondition of a) and (r deleted by a => r a
\* precondition of a).  The hard clauses of the problem are among the
\* hard_constraints list, so the claim is stated of all of that list.
C1_HardConstraintSoundness ==
    (op = "AMDN" /\ Returned) =>
        \A a \in obs.actions : \A r \in obs.propositions :
            \A A \in Assignments(obs) : Satisfies(A, hard) => WellFormed(A, r, a)

\* C2: AMDN called with a collection of another type raises
\* IncompatibleObservationToken, and has run no constraint builder and no
\* encoder and produced no constraint map and no hard-constraint list.
C2_WrongTypeFailsFast ==
    (op = "AMDN" /\ WrongType) =>
        /\ err = "IncompatibleObservationToken"
        /\ ran = <<>>
        /\ out = {}
        /\ hard = {}
        /\ problem = NoProblem

C2_Witness ==
    /\ op = "AMDN"
    /\ WrongType
    /\ Len(obs.traces) = 1
    /\ err = "IncompatibleObservationToken"

\* C3: Extract called with an empty collection raises (ValueError) in every
\* mode, before any technique is dispatched and any builder is reached.
C3_EmptyFailsBeforeDispatch ==
    (op = "Extract" /\ Len(obs.traces) = 0) =>
        /\ err = "ValueError"
        /\ dispatched = "none"
        /\ ran = <<>>
        /\ out = {}

C3_Witness ==
    /\ op = "Extract"
    /\ Len(obs.traces) = 0
    /\ mode = "AMDN"
    /\ err = "ValueError"


\* the soft entries of a map that come from the formula converted in context ctx
SoftOf(m, ctx) ==
    {e \in m : e.w # HARD /\ \E l \in e.c : IsAux(l) /\ SubSeq(l.v.id, 1, 7) = ctx}

Soft(m) == {e \in m : e.w # HARD}

Contexts(o) ==
    {<<1, i, t[1], t[2], t[3], r>> :
        i \in DOMAIN o.traces, t \in (1..MaxSets) \X Acts \X Acts, r \in o.propositions}

\* C4: deserialize(serialize(m)) returns for every Model m and is == to m;
\* with a filepath the file holds the very text serialize returned; and
\* serializing the unchanged Model again gives that text again.
C4_RoundTrip ==
    /\ op = "serialize" => Returned
    /\ op = "deserialize" => (Returned /\ ModelEq(des.obj, des.of))
    /\ (op = "serialize" /\ Returned /\ text.path) => file = text.doc
    /\ text.of # 0 => dumps(heap[text.of]) = [err |-> "none", doc |-> text.doc]

SinglePair(o) ==
    /\ Len(o.traces) = 1
    /\ Len(o.traces[1].groups) = 2
    /\ Len(o.traces[1].groups[1]) = 1
    /\ Len(o.traces[1].groups[2]) = 1
    /\ o.traces[1].groups[1] # o.traces[1].groups[2]

SoftFor(m, r) == {e \in Soft(m) : \E l \in e.c : IsAux(l) /\ l.v.id[6] = r}

\* C6: for one adjacent pair of sets holding one pair of distinct actions of
\* disorder probability p, the disorder map has for each proposition exactly
\* two soft entries, one of weight 1 - p and one of weight p.
C6_ExactlyTwoSoft ==
    (op = "_build_disorder_constraints" /\ Returned /\ SinglePair(obs)) =>
        \A r \in obs.propositions :
            LET p == obs.probabilities[{obs.traces[1].groups[1][1], obs.traces[1].groups[2][1]}]
            IN  /\ Cardinality(SoftFor(out, r)) = 2
                /\ \E e \in SoftFor(out, r) : e.w = Num((PScale - p) * WMAX, PScale)
                /\ \E e \in SoftFor(out, r) : e.w = Num(p * WMAX, PScale)

\* C7: with the collection fixed, a call of _noise_constraints_6 or of
\* _noise_constraints_8 with a threshold no lower than this call's returns
\* no entry (key and weight) that this call did not return, and returns
\* whenever this call returned.
C7_ThresholdMonotone ==
    /\ op = "_noise_constraints_6" =>
        \A t \in Thresholds : t >= thr =>
            LET higher == _noise_constraints_6(obs, _calculate_all_r_occ(obs), t)
            IN  /\ Returned => higher.err = "none"
                /\ higher.err = "none" => higher.map \subseteq out
                /\ Keys(higher.map) \subseteq Keys(out)
    /\ op = "_noise_constraints_8" =>
        \A t \in Thresholds : t >= thr =>
            LET higher == _noise_constraints_8(obs, _calculate_all_r_occ(obs), t)
            IN  /\ Returned => higher.err = "none"
                /\ higher.err = "none" => higher.map \subseteq out
                /\ Keys(higher.map) \subseteq Keys(out)

C7_Witness ==
    /\ op = "_noise_constraints_6"
    /\ Returned
    /\ thr = 0
    /\ LET higher == _noise_constraints_6(obs, _calculate_all_r_occ(obs), 1)
       IN  higher.map # {} /\ higher.map # out

\* C8: when the table has no entry for a pair the disorder builder or the
\* soft parallel builder looks up, the builder raises (KeyError) and returns
\* no map; every soft weight of a map it returns is p or 1 - p of the
\* table's entry for the pair of the formula.
C8_MissingProbabilityRaises ==
    LET missing(Q) == \E q \in Q : {q[3], q[4]} \notin DOMAIN obs.probabilities
        fromTable == \A e \in Soft(out) : \E l \in e.c :
                        /\ IsAux(l)
                        /\ {l.v.id[4], l.v.id[5]} \in DOMAIN obs.probabilities
                        /\ LET p == obs.probabilities[{l.v.id[4], l.v.id[5]}]
                           IN  e.w \in {Num(p * WMAX, PScale), Num((PScale - p) * WMAX, PScale)}
    IN  /\ op = "_build_disorder_constraints" =>
            /\ missing(DisorderLookups(obs)) => (err = "KeyError" /\ out = {} /\ ran = <<"none">>)
            /\ fromTable
        /\ op = "_build_soft_parallel_constraints" =>
            /\ missing(SameSetLookups(obs) \cup NextSetLookups(obs))
                   => (err = "KeyError" /\ out = {} /\ ran = <<"none">>)
            /\ fromTable

C8_Witness ==
    /\ op = "_build_disorder_constraints"
    /\ obs.probabilities = <<>>
    /\ Len(obs.traces) = 2
    /\ err = "KeyError"

\* C9: when no state holds a true proposition (all_occ = 0),
\* _build_noise_constraints returns an empty map whatever the threshold.
C9_ZeroOccurrencesGuarded ==
    (op = "_build_noise_constraints" /\ _calculate_all_r_occ(obs) = 0) =>
        /\ Returned
        /\ ran = <<"map">>
        /\ out = {}

\* the two formulas of lines 111-112, for any subject and action
IsWellFormedness(c) ==
    \/ \E l \in c : l.v.role = "add" /\ c = implies(add(l.v.s, l.v.a), Neg(pre(l.v.s, l.v.a)))
    \/ \E l \in c : l.v.role = "del" /\ c = implies(delete(l.v.s, l.v.a), pre(l.v.s, l.v.a))

\* n / d as a multiple of 1 / D, for d a divisor of D
Scaled(w, D) == w.n * (D \div w.d)

\* C10: in the problem AMDN solves, the weight of each well-formedness
\* constraint of the parallel builder is strictly greater than the sum of
\* the weights of the soft constraints.
C10_HardOutweighsSoft ==
    (op = "AMDN" /\ Returned) =>
        LET D == PScale * (IF _calculate_all_r_occ(obs) = 0 THEN 1 ELSE _calculate_all_r_occ(obs))
            soft == {e \in out : ~IsWellFormedness(e.c)}
            total == Sum2([e \in soft |-> Scaled(e.w, D)], soft)
        IN  \A e \in out : IsWellFormedness(e.c) => Scaled(e.w, D) > total

\* C11: every literal of a constraint _set_all_constraints returns that is
\* not an auxiliary variable is pre(r, a), add(r, a) or delete(r, a) for a
\* proposition r and an action a of the input.
C11_LiteralsInGrid ==
    (op = "_set_all_constraints" /\ Returned) =>
        \A e \in out : \A l \in e.c :
            ~IsAux(l) => l.v \in DecisionVars(obs)

\* C12: for a threshold of 0 or more, every soft weight of the map
\* _set_all_constraints returns is greater than 0.
C12_SoftWeightsPositive ==
    (op = "_set_all_constraints" /\ Returned /\ thr >= 0) =>
        \A e \in Soft(out) : e.w.n > 0 /\ e.w.d > 0

\* C13: after any sequence of Trace operations, num_steps of every Trace
\* is the number of steps it holds, get_cost_range accepts exactly the
\* ranges within the steps, and get_usage divides by the number of steps.
C13_NumStepsIsLength ==
    \A t \in DOMAIN traceobjs :
        /\ traceobjs[t].num_steps = Len(StepsOf(t))
        /\ \A end \in 1..MaxSteps :
            (get_cost_range(traceobjs[t], StepsOf(t), 1, end).err = "none")
                <=> end <= Len(StepsOf(t))
        /\ \A action \in Steps :
            StepsOf(t) # <<>> =>
                get_usage(traceobjs[t], StepsOf(t), action).d = Len(StepsOf(t))

MutatingOps == TraceOps \ {"idle", "Trace"}

\* C18: a mutating operation on one of two Traces, each constructed without
\* a steps argument, leaves the steps and the length of the other unchanged.
C18_TracesIsolated ==
    [][\A t, u \in TraceIds :
          (/\ t # u
           /\ t \in DOMAIN traceobjs
           /\ u \in DOMAIN traceobjs
           /\ traceobjs[t].steps = DefaultSteps
           /\ traceobjs[u].steps = DefaultSteps
           /\ op' \in MutatingOps
           /\ self' = t)
          => (/\ lists'[traceobjs'[u].steps] = lists[traceobjs[u].steps]
              /\ Len(lists'[traceobjs'[u].steps]) = Len(lists[traceobjs[u].steps]))]_vars

\* a map represents a formula (an Or of Ands) when, whatever the names of
\* the auxiliary variables, it has for each And a HARD clause that defines
\* an auxiliary variable as that And, and a soft entry for that variable
Represented(m, f) ==
    \A k \in DOMAIN f :
        \E e \in m : \E x \in e.c :
            /\ e.w = HARD
            /\ IsAux(x) /\ x.pos
            /\ e.c \ {x} = {Neg(c) : c \in f[k]}
            /\ \E g \in Soft(m) : g.c = _or_refactor(x)

\* C14: the map _build_disorder_constraints returns represents the ordered
\* and the disordered hypothesis of every proposition and every pair of
\* distinct actions of adjacent sets of every trace.
C14_EveryTraceCovered ==
    (op = "_build_disorder_constraints" /\ Returned) =>
        \A i \in DOMAIN obs.traces :
            \A q \in AdjacentPairs(all_par_act_sets(obs)[i]) :
                \A r \in obs.propositions :
                    /\ ran = <<"map">>
                    /\ Represented(out, OrderedHypothesis(PropSubject(r), q[2], q[3]))
                    /\ Represented(out, OrderedHypothesis(PropSubject(r), q[3], q[2]))

\* an emitted clause read back through the returned decode table
Decodes(cl, decode, c) ==
    /\ \A l \in cl : l.n \in DOMAIN decode
    /\ {[v |-> decode[l.n], pos |-> l.pos] : l \in cl} = c

\* C15: the problem _solve_constraints returns has every clause of the
\* hard-constraint list as a hard clause and every soft clause with its
\* weight, all in the numbering of the decode table it returns.
C15_HardClausesEmitted ==
    (op = "AMDN" /\ Returned) =>
        /\ \A c \in hard : \E h \in problem.hard : Decodes(h, problem.decode, c)
        /\ \A e \in out : \E g \in problem.soft :
              g.w = e.w /\ Decodes(g.cl, problem.decode, e.c)

\* every key of a map has one weight; two maps give a common key one weight
Functional(m) == \A e \in m : \A f \in m : e.c = f.c => e.w = f.w
Agree(a, b) == \A e \in a : \A f \in b : e.c = f.c => e.w = f.w

\* C16: a formula key produced twice, by one builder or by two, carries the
\* same weight both times, and the merged maps of _build_parallel_constraints,
\* _build_noise_constraints and _set_all_constraints are what merging in the
\* opposite order gives.
C16_MergeOrderIndependent ==
    /\ (op = "_noise_constraints_7" /\ Returned) => Functional(out)
    /\ (op = "_build_parallel_constraints" /\ Returned) =>
        LET h == _build_hard_parallel_constraints(obs).map
            s == _build_soft_parallel_constraints(obs).map
        IN  /\ Functional(h \cup s)
            /\ out = Merge(s, h)
    /\ (op = "_build_noise_constraints" /\ Returned) =>
        LET all_occ == _calculate_all_r_occ(obs)
            n6 == _noise_constraints_6(obs, all_occ, thr).map
            n7 == _noise_constraints_7(obs, all_occ).map
            n8 == _noise_constraints_8(obs, all_occ, thr).map
        IN  /\ Functional(n6 \cup n7 \cup n8)
            /\ Agree(n6, n7) /\ Agree(n6, n8) /\ Agree(n7, n8)
            /\ out = Merge(n8, Merge(n7, n6))
    /\ (op = "_set_all_constraints" /\ Returned) =>
        LET d == _build_disorder_constraints(obs).map
            p == _build_parallel_constraints(obs).map
            n == _build_noise_constraints(obs, thr).map
        IN  /\ Functional(d \cup p \cup n)
            /\ out = Merge(n, Merge(p, d))

\* _noise_constraints_7 produces one key at two places of the collection
C16_Witness ==
    /\ op = "_noise_constraints_7"
    /\ Returned
    /\ \E t \in Transitions(obs) : \E u \in Transitions(obs) :
          /\ t # u
          /\ t[3] = u[3]
          /\ all_par_act_sets(obs)[t[1]][t[2]] = all_par_act_sets(obs)[u[1]][u[2]]

\* the HARD clauses of a map that come from the formula converted in ctx
HardOf(m, ctx) ==
    {e.c : e \in {e \in m : e.w = HARD /\ \E l \in e.c :
                                   IsAux(l) /\ SubSeq(l.v.id, 1, 7) = ctx}}

\* clauses H hold under the values A of the decision literals and B of the
\* auxiliary variables
SatisfiesWith(A, B, H) ==
    \A cl \in H : \E l \in cl :
        IF IsAux(l) THEN B[l.v] = l.pos ELSE DecisionTrue(l, A)

\* C17: for each hypothesis formula F the disorder builder encodes with
\* weight w, every clause of F's CNF is HARD, every auxiliary variable of F is
\* a soft unit clause of weight w, and every assignment of the decision
\* literals, one that makes F false too, has values of F's auxiliary
\* variables under which all of F's HARD clauses hold.
C17_SoftSemanticsPreserved ==
    (op = "_build_disorder_constraints" /\ Returned /\ ran = <<"map">>) =>
        \A c \in Contexts(obs) : \A hyp \in {1, 2} :
            LET ctx == c \o <<hyp>>
                H == HardOf(out, ctx)
                aux == {l.v : l \in {l \in UNION H : IsAux(l)}}
                dec == {l.v : l \in {l \in UNION H : ~IsAux(l)}}
                F == IF hyp = 1 THEN OrderedHypothesis(PropSubject(c[6]), c[4], c[5])
                     ELSE OrderedHypothesis(PropSubject(c[6]), c[5], c[4])
            IN  H # {} =>
                  /\ H = to_CNF(F, ctx)
                  /\ \A v \in aux : \E e \in SoftOf(out, ctx) :
                        /\ e.c = _or_refactor([v |-> v, pos |-> TRUE])
                        /\ \A f \in SoftOf(out, ctx) : f.w = e.w
                  /\ \A A \in [dec -> BOOLEAN] : \E B \in [aux -> BOOLEAN] :
                        SatisfiesWith(A, B, H)

====
